---- MODULE Spec2Model ----
(***************************************************************************)
(* SMA crossover backtest (run_strategy.py, run_sma_crossover).            *)
(*                                                                         *)
(* One run of run_sma_crossover over one cleaned price series: parameter   *)
(* validation, the two rolling means, the crossover signal and its one-bar *)
(* shift, the long/flat loop that fills at the next bar's open, the        *)
(* trailing open trade, and the final sort of the ledger by entry date.    *)
(*                                                                         *)
(* Bars are numbered from 0 as in the code (iloc).  Prices are integers;   *)
(* the comparison of the two means is done on the window sums,             *)
(* cross-multiplied by the (positive) window lengths.  An Optional value   *)
(* (None, "" or NaN in the code) is the empty tuple, a present value v is  *)
(* the tuple <<v>>.                                                        *)
(***************************************************************************)
EXTENDS Integers, Sequences, FiniteSets, TLC

\* ---------------------------------------------------------------- bounds
MaxLen == 6
MaxWindow == 2

ClosePrices == {1, 2}
OpenPrices == {10, 13}
Windows == (-1)..MaxWindow
Quantities == {-1, 0, 1, 3}

Lengths == 0..MaxLen
AllCloses == UNION {[0..(n - 1) -> ClosePrices] : n \in Lengths}

\* ------------------------------------------------------- optional values
None == <<>>
Some(v) == <<v>>
Val(x) == x[1]

\* The date of bar b: the cleaned series is sorted by date with strictly
\* increasing dates; written as the number yyyymmdd, whose order is the
\* order of the ISO strings the ledger carries.
Date(b) == 20250101 + b
DateIndex(d) == d - 20250101

\* ------------------------------------------------------------- variables
VARIABLES
    fast, slow, qty_cfg,    \* cfg.strategy_params.fast/slow, cfg.execution.qty
    closes,                 \* df["close"], bars 0..n-1
    opens,                  \* df["open"] of bars 1..k, as far as the loop has read it
    pc,                     \* position in run_sma_crossover
    err,                    \* the exception raised, if any
    warned,                 \* the fast >= slow warning was printed
    fast_gt, raw_signal, signal,   \* the series of lines 133-138
    i,                      \* loop index
    position, entry_price, entry_dt, entry_idx, qty, orders,
    result                  \* the returned orders_df

vars == <<fast, slow, qty_cfg, closes, opens, pc, err, warned, fast_gt,
          raw_signal, signal, i, position, entry_price, entry_dt, entry_idx,
          qty, orders, result>>

N == Cardinality(DOMAIN closes)

\* ------------------------------------------------------ indicator engine
RECURSIVE RollingSum(_, _, _)
\* Sum of the w closes ending at bar b (b - w + 1 .. b).
RollingSum(c, w, b) ==
    IF w <= 0 THEN 0 ELSE c[b] + RollingSum(c, w - 1, b - 1)

\* rolling(window=w, min_periods=w): defined from bar w-1 on.
SmaDefined(c, w, b) == b >= 0 /\ b - w + 1 >= 0 /\ b \in DOMAIN c

\* Mutant: the comparison made with >= instead of >.
FastGt_NonStrict(c, f, s, b) ==
    /\ SmaDefined(c, f, b)
    /\ SmaDefined(c, s, b)
    /\ RollingSum(c, f, b) * s >= RollingSum(c, s, b) * f

\* df["sma_fast"] > df["sma_slow"]; a comparison with NaN is False.
FastGt(c, f, s, b) ==
    /\ SmaDefined(c, f, b)
    /\ SmaDefined(c, s, b)
    /\ RollingSum(c, f, b) * s > RollingSum(c, s, b) * f

\* (~fast_gt).shift(1, fill_value=False) and fast_gt.shift(1, fill_value=False)
PrevNotGt(c, f, s, b) == IF b = 0 THEN FALSE ELSE ~FastGt(c, f, s, b - 1)
PrevGt(c, f, s, b) == IF b = 0 THEN FALSE ELSE FastGt(c, f, s, b - 1)

CrossUp(c, f, s, b) == FastGt(c, f, s, b) /\ PrevNotGt(c, f, s, b)

\* Mutant: the negation of fast_gt forgotten in cross_dn.
CrossDn_NoNegation(c, f, s, b) == FastGt(c, f, s, b) /\ PrevGt(c, f, s, b)

CrossDn(c, f, s, b) == ~FastGt(c, f, s, b) /\ PrevGt(c, f, s, b)

RawSignal(c, f, s, b) ==
    IF CrossUp(c, f, s, b) THEN 1 ELSE IF CrossDn(c, f, s, b) THEN -1 ELSE 0

\* Mutant: the signal used unshifted, acting on the bar that produced it.
Signal_NoShift(c, f, s, b) == RawSignal(c, f, s, b)

\* Mutant: the gap the shift leaves at bar 0 filled with 1 instead of 0.
Signal_FillEnter(c, f, s, b) == IF b = 0 THEN 1 ELSE RawSignal(c, f, s, b - 1)

\* raw_signal.shift(1).fillna(0)
Signal(c, f, s, b) == IF b = 0 THEN 0 ELSE RawSignal(c, f, s, b - 1)

\* ------------------------------------------------------------ the ledger
\* A row of lines 164-172.  The exit branch runs only while position == 1,
\* where entry_price, entry_dt and entry_idx are set.
\* Mutant: the profit computed as entry minus exit.
ClosedTrade_SignFlipped(e_dt, e_price, q, x_dt, x_price, held) ==
    [entry_dt |-> e_dt, entry_price |-> e_price, qty |-> q,
     exit_dt |-> Some(x_dt), exit_price |-> Some(x_price),
     pnl |-> IF e_price = None THEN None ELSE Some((Val(e_price) - x_price) * q),
     bars_held |-> held]

ClosedTrade(e_dt, e_price, q, x_dt, x_price, held) ==
    [entry_dt |-> e_dt, entry_price |-> e_price, qty |-> q,
     exit_dt |-> Some(x_dt), exit_price |-> Some(x_price),
     pnl |-> IF e_price = None THEN None ELSE Some((x_price - Val(e_price)) * q),
     bars_held |-> held]

OpenTrade(e_dt, e_price, q) ==
    [entry_dt |-> e_dt, entry_price |-> e_price, qty |-> q,
     exit_dt |-> None, exit_price |-> None, pnl |-> None, bars_held |-> None]

\* The key orders_df.sort_values("entry_dt") compares: "" sorts before a date.
SortKey(t) == IF t.entry_dt = None THEN 0 ELSE Val(t.entry_dt)

RECURSIVE Insert(_, _)
Insert(t, s) ==
    IF s = <<>> THEN <<t>>
    ELSE IF SortKey(t) < SortKey(Head(s)) THEN <<t>> \o s
    ELSE <<Head(s)>> \o Insert(t, Tail(s))

RECURSIVE SortByEntryDt(_)
SortByEntryDt(s) ==
    IF s = <<>> THEN <<>>
    ELSE Insert(s[Len(s)], SortByEntryDt(SubSeq(s, 1, Len(s) - 1)))

\* ------------------------------------------------------- the loop's body
\* Mutant: the entry branch taken on sig == 1 whatever the position.
LoopBody_Reenter(st, sig, next_open, next_date, b, q) ==
    IF sig = 1 THEN
        [position |-> 1, entry_price |-> Some(next_open),
         entry_dt |-> Some(next_date), entry_idx |-> Some(b + 1),
         orders |-> st.orders]
    ELSE IF st.position = 1 /\ sig = -1 THEN
        [position |-> 0, entry_price |-> None, entry_dt |-> None,
         entry_idx |-> None,
         orders |-> Append(st.orders,
             ClosedTrade(st.entry_dt, st.entry_price, q, next_date, next_open,
                 IF st.entry_idx = None THEN None
                 ELSE Some((b + 1) - Val(st.entry_idx))))]
    ELSE st

\* st is the loop state [position, entry_price, entry_dt, entry_idx, orders];
\* b is the loop index, sig = signal[b], next_open/next_date are bar b+1's.
LoopBody(st, sig, next_open, next_date, b, q) ==
    IF st.position = 0 /\ sig = 1 THEN
        [position |-> 1, entry_price |-> Some(next_open),
         entry_dt |-> Some(next_date), entry_idx |-> Some(b + 1),
         orders |-> st.orders]
    ELSE IF st.position = 1 /\ sig = -1 THEN
        [position |-> 0, entry_price |-> None, entry_dt |-> None,
         entry_idx |-> None,
         orders |-> Append(st.orders,
             ClosedTrade(st.entry_dt, st.entry_price, q, next_date, next_open,
                 IF st.entry_idx = None THEN None
                 ELSE Some((b + 1) - Val(st.entry_idx))))]
    ELSE st

LoopState ==
    [position |-> position, entry_price |-> entry_price, entry_dt |-> entry_dt,
     entry_idx |-> entry_idx, orders |-> orders]

\* ------------------------------------------------------------------ Init
Init ==
    /\ fast \in Windows
    /\ slow \in Windows
    /\ qty_cfg \in Quantities
    /\ closes \in AllCloses
    /\ opens = <<>>
    /\ pc = "validate"
    /\ err = None
    /\ warned = FALSE
    /\ fast_gt = <<>>
    /\ raw_signal = <<>>
    /\ signal = <<>>
    /\ i = 0
    /\ position = 0
    /\ entry_price = None
    /\ entry_dt = None
    /\ entry_idx = None
    /\ qty = None
    /\ orders = <<>>
    /\ result = None

\* --------------------------------------------------------------- actions
\* Lines 124-128: the window check and the degenerate-configuration warning.
ParamsValid == ~(fast <= 0 \/ slow <= 0)

Validate ==
    /\ pc = "validate"
    /\ IF ParamsValid
       THEN /\ pc' = "compute"
            /\ warned' = (fast >= slow)
            /\ err' = err
       ELSE /\ pc' = "failed"
            /\ err' = Some("ValueError")
            /\ warned' = warned
    /\ UNCHANGED <<fast, slow, qty_cfg, closes, opens, fast_gt, raw_signal,
                   signal, i, position, entry_price, entry_dt, entry_idx, qty,
                   orders, result>>

\* Lines 130-145: the rolling means, the crossover series, the shifted
\* signal, and the loop's initial state.
ComputeSignals ==
    /\ pc = "compute"
    /\ fast_gt' = [b \in DOMAIN closes |-> FastGt(closes, fast, slow, b)]
    /\ raw_signal' = [b \in DOMAIN closes |-> RawSignal(closes, fast, slow, b)]
    /\ signal' = [b \in DOMAIN closes |-> Signal(closes, fast, slow, b)]
    /\ orders' = <<>>
    /\ position' = 0
    /\ entry_price' = None
    /\ entry_dt' = None
    /\ entry_idx' = None
    /\ qty' = Some(qty_cfg)
    /\ i' = 0
    /\ pc' = "loop"
    /\ UNCHANGED <<fast, slow, qty_cfg, closes, opens, err, warned, result>>

\* Lines 147-176: one iteration of the loop; bar i+1's open is read here.
LoopStep ==
    /\ pc = "loop"
    /\ i < N - 1
    /\ \E next_open \in OpenPrices :
         LET st == LoopBody(LoopState, signal[i], next_open, Date(i + 1), i,
                            Val(qty))
         IN /\ opens' = Append(opens, next_open)
            /\ position' = st.position
            /\ entry_price' = st.entry_price
            /\ entry_dt' = st.entry_dt
            /\ entry_idx' = st.entry_idx
            /\ orders' = st.orders
    /\ i' = i + 1
    /\ UNCHANGED <<fast, slow, qty_cfg, closes, pc, err, warned, fast_gt,
                   raw_signal, signal, qty, result>>

\* Mutant: the trailing trade appended when the position is flat.
Flush_Inverted ==
    /\ pc = "loop"
    /\ ~(i < N - 1)
    /\ orders' = IF position = 0
                 THEN Append(orders, OpenTrade(entry_dt, entry_price, Val(qty)))
                 ELSE orders
    /\ pc' = "assemble"
    /\ UNCHANGED <<fast, slow, qty_cfg, closes, opens, err, warned, fast_gt,
                   raw_signal, signal, i, position, entry_price, entry_dt,
                   entry_idx, qty, result>>

\* Lines 178-187: the series is exhausted; a position still open is appended
\* with blank exit fields.
Flush ==
    /\ pc = "loop"
    /\ ~(i < N - 1)
    /\ orders' = IF position = 1
                 THEN Append(orders, OpenTrade(entry_dt, entry_price, Val(qty)))
                 ELSE orders
    /\ pc' = "assemble"
    /\ UNCHANGED <<fast, slow, qty_cfg, closes, opens, err, warned, fast_gt,
                   raw_signal, signal, i, position, entry_price, entry_dt,
                   entry_idx, qty, result>>

\* Lines 189-194: the data frame, sorted by entry date when not empty.
Finish ==
    /\ pc = "assemble"
    /\ result' = Some(IF orders /= <<>> THEN SortByEntryDt(orders) ELSE orders)
    /\ pc' = "done"
    /\ UNCHANGED <<fast, slow, qty_cfg, closes, opens, err, warned, fast_gt,
                   raw_signal, signal, i, position, entry_price, entry_dt,
                   entry_idx, qty, orders>>

Next == Validate \/ ComputeSignals \/ LoopStep \/ Flush \/ Finish

Spec == Init /\ [][Next]_vars

\* ------------------------------------------------------- shared notions
Computed == pc \in {"loop", "assemble", "done"}
Ended == pc \in {"assemble", "done"}
IsOpen(t) == t.exit_dt = None
Trades(s) == {s[k] : k \in 1..Len(s)}
EntryBar(t) == DateIndex(Val(t.entry_dt))
ExitBar(t) == DateIndex(Val(t.exit_dt))
\* The first bar at which both rolling means are defined.
FirstDefined == (IF fast >= slow THEN fast ELSE slow) - 1
NonZeroBars == {b \in DOMAIN raw_signal : raw_signal[b] /= 0}

\* ------------------------------------------------------------------ C1
\* C1: every entry (exit) in the ledger is filled at the open and date of
\* the bar right after the bar j whose close produced the cross-up
\* (cross-down): the raw signal of the bar before the fill bar is the
\* crossover, and the price is that fill bar's open.
C1_FillAtBarAfterCrossover ==
    \A t \in Trades(orders) :
        /\ t.entry_dt /= None
        /\ EntryBar(t) - 1 \in DOMAIN raw_signal
        /\ raw_signal[EntryBar(t) - 1] = 1
        /\ t.entry_price = Some(opens[EntryBar(t)])
        /\ ~IsOpen(t) =>
              /\ raw_signal[ExitBar(t) - 1] = -1
              /\ t.exit_price = Some(opens[ExitBar(t)])

\* ------------------------------------------------------------------ C2
AgreeBefore(c1, c2, b) == \A k \in 0..(b - 1) : c1[k] = c2[k]

\* C2: the lagged signal at bar b is the same for every series that agrees
\* with the input on all bars before b, and the lagged signal at bar 0 is
\* none.
C2_NoLookAhead ==
    (pc = "loop" /\ i = 0) =>
        /\ \A b \in DOMAIN signal : b = 0 => signal[b] = 0
        /\ \A c2 \in AllCloses :
             \A b \in (DOMAIN signal) \cap (DOMAIN c2) :
                AgreeBefore(closes, c2, b) => Signal(c2, fast, slow, b) = signal[b]

\* A run whose lagged signal is an entry at a bar whose own close differs
\* from the close before it.
C2_Witness ==
    /\ pc = "loop"
    /\ \E b \in DOMAIN signal :
          /\ b >= 2
          /\ signal[b] = 1
          /\ closes[b] /= closes[b - 1]

\* ------------------------------------------------------------------ C3
\* C3: the position is flat or long and the entry data are recorded exactly
\* while long; no open trade is in the ledger before the series is
\* exhausted; the loop body given enter_long while long changes nothing;
\* the returned ledger is the ledger in execution order, with strictly
\* ascending entry dates, each entry bar strictly after the previous exit
\* bar.
C3_SinglePosition ==
    /\ position \in {0, 1}
    /\ (position = 1) <=> (entry_price /= None)
    /\ (position = 1) <=> (entry_dt /= None)
    /\ (position = 1) <=> (entry_idx /= None)
    /\ pc = "loop" => \A t \in Trades(orders) : ~IsOpen(t)
    /\ (pc = "loop" /\ position = 1) =>
          \A o \in OpenPrices :
             LoopBody(LoopState, 1, o, Date(i + 1), i, Val(qty)) = LoopState
    /\ pc = "done" =>
          /\ Val(result) = orders
          /\ \A k \in 1..(Len(orders) - 1) :
                /\ Val(orders[k].entry_dt) < Val(orders[k + 1].entry_dt)
                /\ ~IsOpen(orders[k])
                /\ ExitBar(orders[k]) < EntryBar(orders[k + 1])

\* A finished run with two trades in the ledger.
C3_Witness == pc = "done" /\ Len(Val(result)) >= 2

\* ------------------------------------------------------------------ C4
\* C4: every trade carries the configured quantity; every closed trade has
\* the opens of its entry and exit bars as prices, their difference times
\* the quantity as profit, and the distance of the two bars as bars held.
C4_PnlCorrect ==
    \A t \in Trades(orders) \cup (IF pc = "done" THEN Trades(Val(result)) ELSE {}) :
        /\ t.qty = qty_cfg
        /\ ~IsOpen(t) =>
              /\ t.entry_price = Some(opens[EntryBar(t)])
              /\ t.exit_price = Some(opens[ExitBar(t)])
              /\ t.pnl = Some((Val(t.exit_price) - Val(t.entry_price)) * t.qty)
              /\ t.pnl = Some((opens[ExitBar(t)] - opens[EntryBar(t)]) * qty_cfg)
              /\ t.bars_held = Some(ExitBar(t) - EntryBar(t))

\* A finished run with a closed trade whose profit is not zero, at a
\* quantity other than one.
C4_Witness ==
    /\ pc = "done"
    /\ qty_cfg = 3
    /\ \E t \in Trades(Val(result)) : ~IsOpen(t) /\ Val(t.pnl) < 0

\* ------------------------------------------------------------------ C5
\* C5: with fast <= 0, slow <= 0 or quantity <= 0 the run never gets past
\* parameter validation: it computes no series, runs no loop step and
\* produces no ledger, and once validation has run it has failed.
C5_InvalidParameterFailsFast ==
    (fast <= 0 \/ slow <= 0 \/ qty_cfg <= 0) =>
        /\ pc \in {"validate", "failed"}
        /\ pc = "failed" => err /= None
        /\ signal = <<>>
        /\ orders = <<>>
        /\ result = None

TrailingOpen(s) ==
    /\ position = 1 =>
          /\ Len(s) >= 1
          /\ s[Len(s)] = OpenTrade(entry_dt, entry_price, qty_cfg)
          /\ s[Len(s)].entry_dt = Some(Date(Val(entry_idx)))
          /\ s[Len(s)].entry_price = Some(opens[Val(entry_idx)])
          /\ s[Len(s)].exit_dt = None
          /\ s[Len(s)].exit_price = None
          /\ s[Len(s)].pnl = None
          /\ s[Len(s)].bars_held = None
    /\ position = 0 => \A t \in Trades(s) : ~IsOpen(t)
    /\ \A k \in 1..(Len(s) - 1) :
          /\ s[k].exit_dt /= None
          /\ s[k].exit_price /= None
          /\ s[k].pnl /= None
          /\ s[k].bars_held /= None

\* C7: once the series is exhausted, a long position is the last entry of
\* the ledger, open, with the recorded entry date and price (the open and
\* date of the entry bar) and every exit field absent; a flat one leaves no
\* open trade; and only the last entry can be open.
C7_TrailingOpenPosition ==
    /\ Ended => TrailingOpen(orders)
    /\ pc = "done" => TrailingOpen(Val(result))

\* A finished run that ends long after an earlier closed trade.
C7_Witness ==
    /\ pc = "done"
    /\ position = 1
    /\ Len(Val(result)) >= 2

\* ------------------------------------------------------------------ C8
\* C8: with fast = slow > 0 the run raises nothing, prints the warning,
\* computes no crossover signal at any bar and returns an empty ledger.
C8_DegenerateConfig ==
    (fast = slow /\ fast > 0) =>
        /\ pc /= "failed"
        /\ err = None
        /\ pc /= "validate" => warned
        /\ \A b \in DOMAIN raw_signal : raw_signal[b] = 0 /\ signal[b] = 0
        /\ orders = <<>>
        /\ pc = "done" => result = Some(<<>>)

\* A finished degenerate run over a series whose closes move both ways.
C8_Witness ==
    /\ pc = "done"
    /\ fast = slow
    /\ fast = 2
    /\ \E b \in DOMAIN closes : b >= 2 /\ closes[b] < closes[b - 1]
    /\ \E b \in DOMAIN closes : b >= 2 /\ closes[b] > closes[b - 1]

\* ------------------------------------------------------------------ C9
\* C9: the raw signal is enter_long at bar b iff the fast mean is strictly
\* above the slow one at b and not at b - 1, exit_long iff it is not above
\* at b and above at b - 1, and the first bar at which both means are
\* defined never carries enter_long.
C9_CrossoverDetection ==
    Computed =>
        /\ \A b \in DOMAIN raw_signal :
              /\ raw_signal[b] = 1 <=>
                    (fast_gt[b] /\ b >= 1 /\ ~fast_gt[b - 1])
              /\ raw_signal[b] = -1 <=>
                    (~fast_gt[b] /\ b >= 1 /\ fast_gt[b - 1])
              /\ fast_gt[b] <=>
                    /\ b >= FirstDefined
                    /\ RollingSum(closes, fast, b) * slow
                         > RollingSum(closes, slow, b) * fast
        /\ FirstDefined \in DOMAIN raw_signal => raw_signal[FirstDefined] /= 1

\* ----------------------------------------------------------------- C10
FillCount(s) ==
    Cardinality({k \in 1..Len(s) : s[k].entry_dt /= None})
      + Cardinality({k \in 1..Len(s) : s[k].exit_dt /= None})

====
